---------------------------- MODULE Spec2Model ----------------------------
(***************************************************************************)
(* Sky Flight: the flight-dynamics and camera coupling of the in-browser   *)
(* flight simulator (Earth, Aircraft, Controls, Camera, Airports, Game).   *)
(*                                                                         *)
(* JavaScript numbers are modelled in fixed point:                         *)
(*   angles            millidegrees          (1 degree      = 1000)        *)
(*   scene distances   centi-units           (1 scene unit  = 100)         *)
(*   sin / cos         ten-thousandths       (1.0           = 10000)       *)
(*   control channels  thousandths           (1.0           = 1000)        *)
(*   speed             hundredths of km/h    (1 km/h        = 100)         *)
(*   time              centiseconds          (1 s           = 100)         *)
(*   velocity          micro-units per tick  (1 scene unit  = 1000000)     *)
(* Every division rounds to the nearest representable value, the way an    *)
(* IEEE operation rounds to the nearest double.                            *)
(***************************************************************************)
EXTENDS Integers, Sequences, FiniteSets, TLC

VARIABLES
    probe,      \* inputs and results of the pure conversions under test
    aircraft,   \* Aircraft: currentType, mesh, group and Aircraft.state
    input,      \* Aircraft.input
    controls,   \* Controls: keys, gyro, joystick, output; Settings read by it
    camera,     \* Camera: currentView, transition, state, baseFOV, currentFOV
    game,       \* Game: isFlying, isPaused; whether the animation loop runs
    airports,   \* Airports.data, Airports.destinationAirport
    earth,      \* Earth.nightLights and its opacity; the day/night setting, the clock
    hud,        \* HUD: visible, the distance readout, the view indicator
    audio,      \* Audio: settings.enabled, the context, engineSound, stop timers
    op,         \* the last operation: name, arguments, steps run, error thrown
    steps       \* number of operations performed so far

vars == <<probe, aircraft, input, controls, camera, game, airports, earth, hud, audio,
          op, steps>>

(***************************************************************************)
(* Fixed-point scales.                                                     *)
(***************************************************************************)
Milli == 10 * 100
Centi == 10 * 10
TrigScale == 10 * 1000
HalfTurn == 180 * Milli
FullTurn == 360 * Milli

(***************************************************************************)
(* Arithmetic helpers.                                                     *)
(***************************************************************************)
Abs(a) == IF a < 0 THEN -a ELSE a

\* a / b rounded to the nearest integer (b > 0).
RDiv(a, b) == (2 * a + b) \div (2 * b)

\* JavaScript's % operator: the remainder takes the sign of the dividend.
JsMod(a, b) == IF a >= 0 THEN a % b ELSE -((-a) % b)

\* THREE.MathUtils.clamp(value, min, max) = Math.max(min, Math.min(max, value)).
Min(a, b) == IF a < b THEN a ELSE b
Max(a, b) == IF a > b THEN a ELSE b
clamp(value, lo, hi) == Max(lo, Min(hi, value))

RECURSIVE SqrtIter(_, _)
SqrtIter(n, x) ==
    LET y == (x + n \div x) \div 2
    IN  IF y >= x THEN x ELSE SqrtIter(n, y)

\* Math.sqrt, rounded to the nearest integer.
Sqrt(n) ==
    IF n = 0 THEN 0
    ELSE LET r == SqrtIter(n, n)
         IN  IF n - r * r > r THEN r + 1 ELSE r

(***************************************************************************)
(* Math.sin / Math.cos: a table of sin at whole degrees (scaled by         *)
(* TrigScale), linearly interpolated in between.                           *)
(***************************************************************************)
SinTab ==
  << 0, 175, 349, 523, 698, 872, 1045, 1219, 1392, 1564, 1736, 1908, 2079, 2250, 2419,
     2588, 2756, 2924, 3090, 3256, 3420, 3584, 3746, 3907, 4067, 4226, 4384, 4540, 4695,
     4848, 5000, 5150, 5299, 5446, 5592, 5736, 5878, 6018, 6157, 6293, 6428, 6561, 6691,
     6820, 6947, 7071, 7193, 7314, 7431, 7547, 7660, 7771, 7880, 7986, 8090, 8192, 8290,
     8387, 8480, 8572, 8660, 8746, 8829, 8910, 8988, 9063, 9135, 9205, 9272, 9336, 9397,
     9455, 9511, 9563, 9613, 9659, 9703, 9744, 9781, 9816, 9848, 9877, 9903, 9925, 9945,
     9962, 9976, 9986, 9994, 9998, 10000 >>

\* sin of an angle in the first quadrant, 0 .. 90000 millidegrees.
SinQ(a) ==
    LET d == a \div Milli
        f == a % Milli
    IN  IF f = 0 THEN SinTab[d + 1]
        ELSE SinTab[d + 1] + RDiv((SinTab[d + 2] - SinTab[d + 1]) * f, Milli)

Sin(angle) ==
    LET a == angle % FullTurn
    IN  IF a <= 90 * Milli THEN SinQ(a)
        ELSE IF a <= 180 * Milli THEN SinQ(HalfTurn - a)
        ELSE IF a <= 270 * Milli THEN -SinQ(a - HalfTurn)
        ELSE -SinQ(FullTurn - a)

Cos(angle) == Sin(angle + 90 * Milli)

\* a * t for a trigonometric factor t.
MulT(a, t) == RDiv(a * t, TrigScale)

\* Math.acos(num / den) in millidegrees, to the nearest whole degree; den > 0.
Acos(num, den) ==
    LET err(p) == Abs(Cos(p * Milli) * den - num * TrigScale)
    IN  Milli * (CHOOSE p \in 0..180 : \A q \in 0..180 : err(p) <= err(q))

\* Math.atan2(y, x) in millidegrees, to the nearest whole degree, in (-180, 180]:
\* the direction whose unit vector has the largest projection on (x, y).
\* Math.atan2(0, 0) is 0, and Math.atan2(0, x) is +180 degrees for x < 0.
Atan2(y, x) ==
    IF x = 0 /\ y = 0 THEN 0
    ELSE LET range == IF y > 0 THEN 1..179
                      ELSE IF y < 0 THEN -179..-1
                      ELSE {0, 180}
             proj(a) == x * Cos(a * Milli) + y * Sin(a * Milli)
         IN  Milli * (CHOOSE a \in range : \A b \in range : proj(a) >= proj(b))

(***************************************************************************)
(* THREE.Vector3                                                           *)
(***************************************************************************)
Vec(x, y, z) == [x |-> x, y |-> y, z |-> z]
ZeroVec == Vec(0, 0, 0)
VecAdd(a, b) == Vec(a.x + b.x, a.y + b.y, a.z + b.z)
Length(v) == Sqrt(v.x * v.x + v.y * v.y + v.z * v.z)

(***************************************************************************)
(* Earth                                                                   *)
(***************************************************************************)
\* Earth.sceneRadius, in scene units.
sceneRadius == 100

\* Earth.latLonToVector3(lat, lon, altitude)
latLonToVector3(lat, lon, altitude) ==
    LET phi    == 90 * Milli - lat
        theta  == lon + 180 * Milli
        radius == sceneRadius * Centi + altitude
    IN  Vec(-MulT(MulT(radius, Sin(phi)), Cos(theta)),
            MulT(radius, Cos(phi)),
            MulT(MulT(radius, Sin(phi)), Sin(theta)))

\* Earth.vector3ToLatLon(position); position is not the zero vector.
vector3ToLatLon(position) ==
    LET radius   == Length(position)
        altitude == radius - sceneRadius * Centi
        lat      == 90 * Milli - Acos(position.y, radius)
        lon      == JsMod(Atan2(position.z, -position.x) - 180 * Milli + 360 * Milli,
                          360 * Milli) - 180 * Milli
    IN  [lat |-> lat, lon |-> lon, altitude |-> altitude]

(***************************************************************************)
(* Aircraft                                                                *)
(***************************************************************************)
\* The orientation of a new THREE.Group, the identity quaternion, as the
\* images of the x and z axes (scaled by TrigScale); the image of y is their
\* cross product.
IdentityBasis == [x |-> Vec(TrigScale, 0, 0), z |-> Vec(0, 0, TrigScale)]

\* Aircraft.types: speeds in km/h, handling in tenths.
types ==
    [cessna   |-> [speed |-> 300,  maxSpeed |-> 400,  minSpeed |-> 100, handling |-> 10],
     airliner |-> [speed |-> 850,  maxSpeed |-> 1000, minSpeed |-> 300, handling |-> 7],
     jet      |-> [speed |-> 1500, maxSpeed |-> 2000, minSpeed |-> 500, handling |-> 15]]

TypeNames == DOMAIN types

\* The Aircraft object literal: currentType, mesh, group and Aircraft.state.
AircraftConstructed ==
    [currentType |-> "null", mesh |-> FALSE, group |-> FALSE,
     position |-> ZeroVec, velocity |-> ZeroVec,
     speed |-> 0, altitude |-> 10 * Centi,
     heading |-> 0, pitch |-> 0, roll |-> 0,
     isFlying |-> FALSE, takeoffAirport |-> "null", destinationAirport |-> "null",
     orientation |-> IdentityBasis]

\* Aircraft.input of the object literal.
InputConstructed == [pitch |-> 0, roll |-> 0, yaw |-> 0, throttle |-> 0]

\* a * b / c, rounded, without forming the product a * b (c > 0).
MulDiv(a, b, c) == (a \div c) * b + RDiv((a % c) * b, c)

RECURSIVE MulMod(_, _, _)
\* (a * b) % m for a, b >= 0, without forming the product.
MulMod(a, b, m) ==
    IF b = 0 THEN 0
    ELSE (MulMod((2 * a) % m, b \div 2, m) + (IF b % 2 = 1 THEN a ELSE 0)) % m

\* Aircraft.setType(type): an unknown type is replaced by 'cessna'.  The state
\* it leaves behind; without a group the call throws after these assignments.
setType(ac, type) ==
    LET t == IF type \in TypeNames THEN type ELSE "cessna"
    IN  [ac EXCEPT !.currentType = t, !.speed = types[t].speed * Centi, !.mesh = TRUE]

setTypeThrows(ac) == ~ac.group

\* Aircraft.init(scene, type = 'cessna')
init(ac, type) == setType([ac EXCEPT !.group = TRUE, !.orientation = IdentityBasis], type)

\* setInput without its clamps.
passInput(in, raw) ==
    [ch \in DOMAIN in |-> IF ch \in DOMAIN raw THEN raw[ch] ELSE in[ch]]

\* Aircraft.setInput(input): each channel present in input is clamped to
\* [-1, 1]; a channel that is undefined keeps its value.
setInput(in, raw) ==
    [ch \in DOMAIN in |->
        IF ch \in DOMAIN raw THEN clamp(raw[ch], -Milli, Milli) ELSE in[ch]]

\* Aircraft.stabilize()
stabilize(ac) ==
    [ac EXCEPT !.pitch = RDiv(ac.pitch * 9, 10), !.roll = RDiv(ac.roll * 9, 10)]

\* Aircraft.takeoff(airport), up to the read of this.currentType.speed.
takeoffPrefix(ac, airport) ==
    [ac EXCEPT !.position = latLonToVector3(airport.lat, airport.lon, 2 * Centi),
               !.altitude = 2 * Centi, !.heading = 0, !.pitch = 0, !.roll = 0]

\* A takeoff that leaves state.isFlying as it was.
takeoffGrounded(ac, airport) ==
    IF ac.currentType = "null" THEN takeoffPrefix(ac, airport)
    ELSE [takeoffPrefix(ac, airport) EXCEPT
             !.speed = types[ac.currentType].speed * Centi,
             !.takeoffAirport = airport.icao]

\* Aircraft.takeoff(airport): with currentType null the read of
\* this.currentType.speed throws, after the position and the angles are set;
\* without a group the last statement throws, after everything else is set.
takeoff(ac, airport) ==
    IF ac.currentType = "null" THEN takeoffPrefix(ac, airport)
    ELSE [takeoffPrefix(ac, airport) EXCEPT
             !.speed = types[ac.currentType].speed * Centi,
             !.isFlying = TRUE,
             !.takeoffAirport = airport.icao]

takeoffThrows(ac) == ac.currentType = "null" \/ ~ac.group

\* heading = (heading + 360) % 360 of Aircraft.update, where heading is
\* base + roll * 0.5 * deltaTime.  The bank term can exceed the integer range,
\* so the sum is formed only when it fits; otherwise its sign is the sign of
\* the bank term and its remainder is computed modulo a full turn.
normalizeHeading(base, roll, dt) ==
    LET m     == Abs(roll)
        q     == m \div 200
        r     == m % 200
        fits  == dt = 0 \/ q < (1000000000 \div dt)
        low   == RDiv(r * dt, 200)
        whole == q * dt + low
        rem   == (MulMod(q % FullTurn, dt % FullTurn, FullTurn) + low) % FullTurn
    IN  IF fits
        THEN JsMod(base + (IF roll < 0 THEN -whole ELSE whole) + 360 * Milli, 360 * Milli)
        ELSE IF roll > 0 THEN (base + rem) % FullTurn
        ELSE -((rem - base) % FullTurn)

\* The forward axis (1, 0, 0) rotated by Euler(pitch, heading, roll, 'YXZ').
forwardVector(pitch, heading, roll) ==
    Vec(MulT(Cos(heading), Cos(roll)) + MulT(MulT(Sin(heading), Sin(roll)), Sin(pitch)),
        MulT(Cos(pitch), Sin(roll)),
        MulT(MulT(Cos(heading), Sin(roll)), Sin(pitch)) - MulT(Sin(heading), Cos(roll)))

\* position.normalize().multiplyScalar(len): normalize divides by length() || 1.
setLength(v, len) ==
    LET l == Length(v)
        d == IF l = 0 THEN 1 ELSE l
        n == IF l = 0 THEN 1 ELSE len
    IN  Vec(RDiv(v.x * n, d), RDiv(v.y * n, d), RDiv(v.z * n, d))

\* The altitude step without its floor and ceiling.
keepAltitude(ac) ==
    [ac EXCEPT !.altitude = Length(ac.position) - sceneRadius * Centi]

\* The altitude clamp of Aircraft.update.
clampAltitude(ac) ==
    LET distFromCenter == Length(ac.position)
        minAltitude    == sceneRadius * Centi + 50
        maxAltitude    == sceneRadius * Centi + 50 * Centi
    IN  IF distFromCenter < minAltitude
        THEN [ac EXCEPT !.position = setLength(ac.position, minAltitude),
                        !.altitude = 50]
        ELSE IF distFromCenter > maxAltitude
        THEN [ac EXCEPT !.position = setLength(ac.position, maxAltitude),
                        !.altitude = 50 * Centi]
        ELSE [ac EXCEPT !.altitude = distFromCenter - sceneRadius * Centi]

\* The clamps left out.
keepPitch(pitch) == pitch
keepSpeed(speed, spec) == speed

\* The angle clamps of Aircraft.update.
clampPitch(pitch) == clamp(pitch, -80 * Milli, 80 * Milli)
clampRoll(roll) == clamp(roll, -60 * Milli, 60 * Milli)

\* targetSpeed = speed + input.throttle * 200 of Aircraft.update.
targetSpeed(speed, throttle) == speed + throttle * 20

\* speed + (targetSpeed - speed) * deltaTime of Aircraft.update, the speed
\* before its clamp.  The difference of the target and the speed is the
\* throttle term itself.
throttleSpeed(speed, throttle, deltaTime) ==
    speed + MulDiv(targetSpeed(speed, throttle) - speed, deltaTime, Centi)

\* The speed clamp of Aircraft.update.
clampSpeed(speed, spec) == clamp(speed, spec.minSpeed * Centi, spec.maxSpeed * Centi)

\* a x b for vectors scaled by TrigScale, scaled by TrigScale.
crossVectors(a, b) ==
    Vec(RDiv(a.y * b.z - a.z * b.y, TrigScale),
        RDiv(a.z * b.x - a.x * b.z, TrigScale),
        RDiv(a.x * b.y - a.y * b.x, TrigScale))

\* Matrix4.lookAt(eye, target, up) for eye - target = back (any length) and a
\* unit up: z is back normalised, or (0, 0, 1) when eye and target coincide;
\* x is up x z normalised, after z is nudged by 0.0001 when up and z are
\* parallel.
lookAt(back, up) ==
    LET z  == IF back = ZeroVec THEN Vec(0, 0, TrigScale) ELSE setLength(back, TrigScale)
        zt == IF crossVectors(up, z) # ZeroVec THEN z
              ELSE setLength(IF Abs(up.z) = TrigScale THEN Vec(z.x + 1, z.y, z.z)
                             ELSE Vec(z.x, z.y, z.z + 1), TrigScale)
    IN  [x |-> setLength(crossVectors(up, zt), TrigScale), z |-> zt]

\* The end of Aircraft.update: group.quaternion.setFromRotationMatrix of
\* matrix.lookAt(position, position + velocity, up).  The velocity is the
\* forward vector times a speed that is not negative, so position minus the
\* look target has the direction of -forward, or is zero with the velocity.
orient(ac, forward) ==
    [ac EXCEPT !.orientation =
        lookAt(IF ac.velocity = ZeroVec THEN ZeroVec
               ELSE Vec(-forward.x, -forward.y, -forward.z),
               setLength(ac.position, TrigScale))]

\* Aircraft.update(deltaTime)
update(ac, in, deltaTime) ==
    IF ~ac.isFlying \/ ~ac.mesh THEN ac
    ELSE
    LET spec     == types[ac.currentType]
        handling == spec.handling
        pitch1   == ac.pitch + MulDiv(in.pitch * handling * 60, deltaTime, Milli)
        roll1    == ac.roll + MulDiv(in.roll * handling * 60, deltaTime, Milli)
        heading1 == ac.heading + MulDiv(in.yaw * handling * 30, deltaTime, Milli)
        speed1   == clampSpeed(throttleSpeed(ac.speed, in.throttle, deltaTime), spec)
        pitch2   == clampPitch(pitch1)
        roll2    == clampRoll(roll1)
        heading2 == normalizeHeading(heading1, roll1, deltaTime)
        pitch3   == IF in.pitch = 0 THEN RDiv(pitch2 * 98, 100) ELSE pitch2
        roll3    == IF in.roll = 0 THEN RDiv(roll2 * 98, 100) ELSE roll2
        scaledSpeed == MulDiv(deltaTime, speed1, 3600)
        forward  == forwardVector(pitch3, heading2, roll3)
        velocity == Vec(MulDiv(scaledSpeed, forward.x, TrigScale),
                        MulDiv(scaledSpeed, forward.y, TrigScale),
                        MulDiv(scaledSpeed, forward.z, TrigScale))
        moved    == Vec(ac.position.x + RDiv(velocity.x, 10000),
                        ac.position.y + RDiv(velocity.y, 10000),
                        ac.position.z + RDiv(velocity.z, 10000))
    IN  orient(clampAltitude([ac EXCEPT !.pitch = pitch3, !.roll = roll3,
                                        !.heading = heading2, !.speed = speed1,
                                        !.velocity = velocity, !.position = moved]),
               forward)

\* Aircraft.getPosition()
getPosition(ac) == vector3ToLatLon(ac.position)

(***************************************************************************)
(* Controls                                                                *)
(***************************************************************************)
\* The Controls object literal.  mobile is Settings.isMobile() and controlMode
\* is Settings.get('controlMode'), the two settings Controls.update reads.
ControlsConstructed(mobile, controlMode) ==
    [keys |-> {}, gyro |-> [beta |-> 0, gamma |-> 0], joystickActive |-> FALSE,
     output |-> [pitch |-> 0, roll |-> 0, yaw |-> 0, throttle |-> 0],
     mobile |-> mobile, controlMode |-> controlMode]

\* Controls.updateJoystickPosition(): dx, dy are currentX - startX and
\* currentY - startY in pixels; the knob is kept within maxDistance = 40.
updateJoystickPosition(c, dx, dy) ==
    LET distance == Sqrt((dx * dx + dy * dy) * 10000)
        over     == distance > 40 * 100
        kx       == IF over THEN MulDiv(dx * 40 * 100, Milli, distance) ELSE dx * Milli
        ky       == IF over THEN MulDiv(dy * 40 * 100, Milli, distance) ELSE dy * Milli
    IN  [c EXCEPT !.output.roll = RDiv(kx, 40), !.output.pitch = RDiv(ky, 40)]

\* Controls.update(): keyboard on desktop, gyroscope or joystick on mobile.
ControlsUpdate(c) ==
    IF ~c.mobile THEN
        LET k(codes) == (codes \cap c.keys) # {}
            pitch    == IF k({"KeyS", "ArrowDown"}) THEN -Milli
                        ELSE IF k({"KeyW", "ArrowUp"}) THEN Milli ELSE 0
            roll     == IF k({"KeyD", "ArrowRight"}) THEN Milli
                        ELSE IF k({"KeyA", "ArrowLeft"}) THEN -Milli ELSE 0
            yaw      == IF k({"KeyE"}) THEN Milli
                        ELSE IF k({"KeyQ"}) THEN -Milli ELSE 0
            throttle == IF k({"ControlLeft", "ControlRight"}) THEN -Milli
                        ELSE IF k({"ShiftLeft", "ShiftRight"}) THEN Milli ELSE 0
        IN  [c EXCEPT !.output = [pitch |-> pitch, roll |-> roll,
                                  yaw |-> yaw, throttle |-> throttle]]
    ELSE IF c.controlMode = "gyroscope" THEN
        [c EXCEPT !.output.pitch = clamp(RDiv(c.gyro.beta * Milli, 30), -Milli, Milli),
                  !.output.roll  = clamp(RDiv(c.gyro.gamma * Milli, 30), -Milli, Milli)]
    ELSE c

(***************************************************************************)
(* Camera                                                                  *)
(***************************************************************************)
\* Camera.views
views == <<"thirdPerson", "cockpit", "overhead">>

ViewNames == {views[i] : i \in 1..Len(views)}

\* Camera.viewSettings: distance and height in milli-units, fov in millidegrees.
viewSettings ==
    [thirdPerson |-> [distance |-> 5 * Milli,  height |-> 2 * Milli,  fov |-> 60 * Milli],
     cockpit     |-> [distance |-> 0,          height |-> 200,        fov |-> 90 * Milli],
     overhead    |-> [distance |-> 20 * Milli, height |-> 15 * Milli, fov |-> 45 * Milli]]

\* The null of transition.from and transition.to before the first transition.
Null == [null |-> TRUE]

\* The Camera object literal; transition.duration is 0.5 s.
CameraConstructed ==
    [camera |-> FALSE, fov |-> 60 * Milli,
     currentView |-> "thirdPerson",
     transition |-> [active |-> FALSE, progress |-> 0, from |-> Null, to |-> Null,
                     duration |-> 50],
     state |-> [distance |-> 5 * Milli, height |-> 2 * Milli, fov |-> 60 * Milli],
     shake |-> [intensity |-> 0, time |-> 0],
     baseFOV |-> 60 * Milli, currentFOV |-> 60 * Milli]

\* THREE.MathUtils.lerp(x, y, t) = (1 - t) * x + t * y, t in thousandths.
lerp(x, y, t) == RDiv((Milli - t) * x + t * y, Milli)

\* The first branch of the easing taken for every t: 4 * t * t * t.
easeInCubic(t) == MulDiv(4 * t * t, t, Milli * Milli)

\* Camera.easeInOutCubic(t), t and the result in thousandths.
easeInOutCubic(t) ==
    IF t < 500 THEN RDiv(4 * t * t * t, Milli * Milli)
    ELSE Milli - RDiv((2 * Milli - 2 * t) * (2 * Milli - 2 * t) * (2 * Milli - 2 * t),
                      2 * Milli * Milli)

\* The test without the comparison of the views.
startsAlways(cam, view, animate) == animate

\* The test of Camera.setView that starts a transition.
startsTransition(cam, view, animate) == animate /\ cam.currentView # view

\* Camera.setView(view, animate).  Before Camera.init there is no camera object:
\* the snap branch then throws after it has assigned state, and currentView
\* keeps its value.
setView(cam, view, animate) ==
    IF view \notin ViewNames THEN cam
    ELSE IF startsTransition(cam, view, animate)
    THEN [cam EXCEPT !.transition.active = TRUE,
                     !.transition.progress = 0,
                     !.transition.from = cam.state,
                     !.transition.to = viewSettings[view],
                     !.currentView = view]
    ELSE IF ~cam.camera
    THEN [cam EXCEPT !.state = viewSettings[view]]
    ELSE [cam EXCEPT !.state = viewSettings[view],
                     !.fov = viewSettings[view].fov,
                     !.currentView = view]

setViewThrows(cam, view, animate) ==
    view \in ViewNames /\ ~startsTransition(cam, view, animate) /\ ~cam.camera

\* Camera.init(camera)
CameraInit(cam) == setView([cam EXCEPT !.camera = TRUE], "thirdPerson", FALSE)

indexOf(view) == CHOOSE i \in 1..Len(views) : views[i] = view

\* The cycle taken backwards.
prevViewName(cam) == views[((indexOf(cam.currentView) + 1) % Len(views)) + 1]

\* The view Camera.nextView() switches to.
nextViewName(cam) == views[(indexOf(cam.currentView) % Len(views)) + 1]

\* Camera.nextView(), the camera part; the viewChanged event follows.
nextView(cam) == setView(cam, nextViewName(cam), TRUE)

\* The transition step with a strict end test and no interpolation.
advanceStrict(cam, deltaTime) ==
    LET raw == cam.transition.progress + RDiv(deltaTime * Milli, cam.transition.duration)
    IN  [cam EXCEPT !.transition.progress = Min(raw, Milli),
                    !.transition.active = ~(raw > Milli)]

\* The transition step without the cap of progress at 1.
advanceUncapped(cam, deltaTime) ==
    LET raw == cam.transition.progress + RDiv(deltaTime * Milli, cam.transition.duration)
    IN  [cam EXCEPT !.transition.progress = raw,
                    !.transition.active = ~(raw >= Milli)]

\* The transition step of Camera.update: progress, end test and interpolation.
advanceTransition(cam, deltaTime) ==
    LET tr       == cam.transition
        raw      == tr.progress + RDiv(deltaTime * Milli, tr.duration)
        done     == raw >= Milli
        progress == IF done THEN Milli ELSE raw
        t        == easeInOutCubic(progress)
        st       == [distance |-> lerp(tr.from.distance, tr.to.distance, t),
                     height   |-> lerp(tr.from.height, tr.to.height, t),
                     fov      |-> lerp(tr.from.fov, tr.to.fov, t)]
    IN  [cam EXCEPT !.transition.progress = progress,
                    !.transition.active = ~done,
                    !.state = st,
                    !.baseFOV = st.fov]

\* Camera.update(aircraft, deltaTime) up to its call of aircraft.getFlightPhase():
\* the transition animation and the speed-based field of view.
cameraUpdatePrefix(cam, ac, deltaTime) ==
    LET c1          == IF cam.transition.active THEN advanceTransition(cam, deltaTime)
                       ELSE cam
        speedBoost  == RDiv(ac.speed * 150, types[ac.currentType].maxSpeed)
        targetFOV   == c1.baseFOV + speedBoost
        currentFOV  == RDiv(95 * c1.currentFOV + 5 * targetFOV, 100)
    IN  [c1 EXCEPT !.currentFOV = currentFOV, !.fov = currentFOV]

\* Camera.update without the isFlying test of its first line.
cameraUpdatesGrounded(ac) == ac.group

\* Whether Camera.update gets past its first line.
cameraUpdates(ac) == ac.isFlying /\ ac.group

\* Aircraft defines no getFlightPhase, so the call in Camera.update throws a
\* TypeError once the camera has got past its first line.
cameraUpdateThrows(ac) == cameraUpdates(ac)

\* Camera.update with aircraft.group.position normalised in place, as it
\* would be without the clone() of the position.
aircraftUpNormalized(cam, ac, deltaTime) ==
    IF cameraUpdates(ac) THEN [ac EXCEPT !.position = setLength(ac.position, 1)] ELSE ac

\* The aircraft object Camera.update(aircraft, deltaTime) was handed, after
\* the call: the method reads aircraft.state, clones the group position and
\* applies the group's quaternion to vectors of its own; it assigns nothing
\* of the aircraft.
aircraftAfterCamera(cam, ac, deltaTime) == ac

CameraUpdate(cam, ac, deltaTime) ==
    IF cameraUpdates(ac) THEN cameraUpdatePrefix(cam, ac, deltaTime) ELSE cam

(***************************************************************************)
(* Earth: the night overlay.  Hours are in thousandths of an hour, the      *)
(* target opacity in thousandths and the overlay's opacity in millionths.  *)
(***************************************************************************)
Micro == Milli * Milli

\* Earth as constructed: no night overlay yet.  mode is the dayNightMode
\* setting ('auto' by default) and utc the clock reading
\* getUTCHours() + getUTCMinutes() / 60 that Earth.getLocalHour takes.
EarthConstructed == [nightLights |-> FALSE, opacity |-> 0, mode |-> "auto", utc |-> 12 * Milli]

\* Earth.init: createNightLights makes the overlay with opacity 0.
earthInit(e) == [e EXCEPT !.nightLights = TRUE, !.opacity = 0]

\* Earth.getLocalHour(longitude), longitude in millidegrees.
getLocalHour(utc, longitude) == JsMod(utc + RDiv(longitude, 15) + 24 * Milli, 24 * Milli)

\* A target that is night outside [6, 19] only from hour 7 on: no dawn ramp.
nightTargetNoDawn(mode, localHour) ==
    IF mode = "night" THEN Milli
    ELSE IF mode = "day" THEN 0
    ELSE IF localHour >= 18 * Milli /\ localHour <= 19 * Milli THEN localHour - 18 * Milli
    ELSE IF localHour >= 7 * Milli /\ localHour < 18 * Milli THEN 0
    ELSE Milli

\* The target opacity Earth.updateDayNight computes.
nightTarget(mode, localHour) ==
    IF mode = "night" THEN Milli
    ELSE IF mode = "day" THEN 0
    ELSE IF localHour >= 6 * Milli /\ localHour <= 7 * Milli THEN Milli - (localHour - 6 * Milli)
    ELSE IF localHour >= 18 * Milli /\ localHour <= 19 * Milli THEN localHour - 18 * Milli
    ELSE IF localHour > 7 * Milli /\ localHour < 18 * Milli THEN 0
    ELSE Milli

\* The smoothing step taken whole: the opacity set to its target.
snapOpacity(opacity, target) == target * Milli

\* opacity += (nightOpacity - opacity) * 0.02
smoothOpacity(opacity, target) == opacity + RDiv((target * Milli - opacity) * 2, 100)

\* Earth.updateDayNight(position, mode)
updateDayNight(e, position, mode) ==
    IF ~e.nightLights THEN e
    ELSE [e EXCEPT !.opacity =
              smoothOpacity(@, nightTarget(mode, getLocalHour(e.utc, position.lon)))]

\* The airports of data/airports.json the flights start from.
AirportData ==
    {[icao |-> "EQ000", lat |-> 0, lon |-> 0],
     [icao |-> "EQ180", lat |-> 0, lon |-> 180 * Milli]}

(***************************************************************************)
(* HUD and the distance to the destination.                                *)
(***************************************************************************)
\* Earth.radius, in km.
radius == 6371

\* The '-- km' text of the distance readout.
Placeholder == [text |-> "-- km"]

\* The HUD object literal: no elements yet, not visible.
HudConstructed == [created |-> FALSE, visible |-> FALSE, distance |-> Placeholder,
                   view |-> "null"]

\* HUD.init: createHUD writes the readout with its placeholder.
hudInit(h) == [h EXCEPT !.created = TRUE, !.distance = Placeholder,
                          !.view = "thirdPerson", !.visible = FALSE]

\* The viewChanged listener HUD.init registers, HUD.updateViewIndicator(view):
\* it writes the view's name into the indicator createHUD made.
updateViewIndicator(h, view) == IF h.created THEN [h EXCEPT !.view = view] ELSE h

\* HUD.show()
hudShow(h) == [h EXCEPT !.visible = TRUE]

\* A distance accessor that answers 0 km without a destination.
zeroDistance(ac) == [km |-> 0]

\* Aircraft.getDistanceToDestination(): null without a destination, else the
\* straight-line distance to it in km.
getDistanceToDestination(ac) ==
    IF ac.destinationAirport = "null" THEN Null
    ELSE LET dest    == CHOOSE a \in AirportData : a.icao = ac.destinationAirport
             destPos == latLonToVector3(dest.lat, dest.lon, 0)
             diff    == Vec(ac.position.x - destPos.x, ac.position.y - destPos.y,
                            ac.position.z - destPos.z)
         IN  [km |-> MulDiv(Length(diff), radius, sceneRadius * Centi)]

\* HUD.update(data), the distance readout.
hudUpdate(h, distance) ==
    IF ~h.visible \/ ~h.created THEN h
    ELSE [h EXCEPT !.distance = IF distance # Null THEN distance ELSE Placeholder]

\* Airports.hideAirportInfo(): the info panel, if there is one, goes.
hideAirportInfo(ap) == [ap EXCEPT !.panel = "null"]

\* Airports.showMenu(): the airport menu is put up.
showMenu(ap) == [ap EXCEPT !.menu = TRUE]

\* Airports.selectAirport(marker): the marker's airport becomes the selected
\* one and its info panel, with the takeoff and destination buttons, is shown.
selectAirport(ap, icao) == [ap EXCEPT !.selectedAirport = icao, !.panel = icao]

\* Airports.selectFromMenu(icao): the menu goes, and an airport of the data
\* that has a marker is selected.
selectFromMenu(ap, icao) ==
    LET hidden == [ap EXCEPT !.menu = FALSE]
    IN  IF \E a \in ap.data : a.icao = icao THEN selectAirport(hidden, icao) ELSE hidden

\* Game.onClick(e) and Game.onTouch(e) for an event outside the UI elements:
\* hit is the airport whose marker the ray meets first, or "none".
onPointer(g, ap, hit) ==
    IF g.isFlying THEN ap
    ELSE IF \E a \in ap.data : a.icao = hit THEN selectAirport(ap, hit) ELSE ap

\* Aircraft.setDestination(airport)
setDestination(ac, airport) == [ac EXCEPT !.destinationAirport = airport.icao]

(***************************************************************************)
(* Audio: the engine sound.  Oscillators are numbered in the order they    *)
(* are created (0 is null); a pending timer of stopEngineSound records the *)
(* number of its stop call and how many oscillators existed at that call.  *)
(***************************************************************************)
\* The Audio object literal; listening says whether setupEventListeners ran.
AudioConstructed ==
    [enabled |-> TRUE, context |-> "null", listening |-> FALSE,
     isPlaying |-> FALSE, oscillator |-> 0, made |-> 0, stops |-> 0, timers |-> {}]

\* Audio.init() in a browser with the Web Audio API: the context is created,
\* suspended or running as the browser's autoplay policy has it, the channels
\* are set up and the listeners registered.
audioInit(a, state) == [a EXCEPT !.context = state, !.listening = TRUE]

\* The resume listener of setupResumeOnInteraction.
audioResume(a) == IF a.context = "suspended" THEN [a EXCEPT !.context = "running"] ELSE a

\* Audio.startEngineSound()
startEngineSound(a) ==
    IF ~a.enabled \/ a.isPlaying THEN a
    ELSE IF a.context # "running" THEN a
    ELSE [a EXCEPT !.oscillator = a.made + 1, !.made = @ + 1, !.isPlaying = TRUE]

\* Audio.stopEngineSound(): the fade-out starts and a timer of 500 ms is set;
\* isPlaying and the oscillator stay as they are until it fires.
stopEngineSound(a) ==
    IF ~a.isPlaying THEN a
    ELSE [a EXCEPT !.stops = @ + 1,
                   !.timers = @ \cup {[id |-> a.stops + 1, after |-> a.made]}]

\* The callback of a stop timer.
stopTimer(a, timer) ==
    [a EXCEPT !.oscillator = 0, !.isPlaying = FALSE, !.timers = @ \ {timer}]

\* Audio.toggle()
toggle(a) ==
    LET flipped == [a EXCEPT !.enabled = ~@]
    IN  IF ~flipped.enabled THEN stopEngineSound(flipped) ELSE flipped

\* The 'takeoff' listener of Audio.setupEventListeners.
takeoffListener(a) == IF a.listening THEN startEngineSound(a) ELSE a

(***************************************************************************)
(* Operations.  Every action is one call of a module's operation or one    *)
(* event handler, run to its end or to the statement that throws.          *)
(*                                                                         *)
(* op records the operation that ran last: its name, its argument, the     *)
(* exception it ended with, the calls it made in order, and the name of    *)
(* the operation before it.  probe observes a camera transition: its       *)
(* target view, the flying frame time accumulated since it started and the *)
(* number of flying frames.                                                *)
(***************************************************************************)
NoProbe == [stage |-> "none"]

\* Whether the operation starts a camera transition.
starts(name, arg, ran) ==
    \/ name = "Camera.nextView"
    \/ name = "keydown" /\ arg = "KeyV"
    \/ name = "Camera.setView" /\ arg.view \in ViewNames
                               /\ startsTransition(camera, arg.view, arg.animate)
    \/ name = "Airports.takeoffFrom" /\ Len(ran) = 4
                                     /\ startsTransition(camera, "thirdPerson", TRUE)

\* The views a run of nextView() calls has set, the view it started from first;
\* frames do not end a run, any other operation does.
tourAfter(name, arg) ==
    IF name = "Camera.nextView"
    THEN (IF op.tour = <<>> THEN <<camera.currentView>> ELSE op.tour) \o <<arg>>
    ELSE IF name = "Game.animate" THEN op.tour
    ELSE <<>>

\* The transition as the last frame before this operation left it, and the
\* number of transitions started since that frame.
tickEndAfter(name, arg, ran) ==
    LET base == IF op.name = "Game.animate"
                THEN [seen |-> TRUE, active |-> camera.transition.active,
                      progress |-> camera.transition.progress, restarts |-> 0]
                ELSE op.tickEnd
    IN  [base EXCEPT !.restarts = IF starts(name, arg, ran) THEN 1 ELSE @]

Op(name, arg, thrown, ran) ==
    [name |-> name, arg |-> arg, thrown |-> thrown, ran |-> ran, prev |-> op.name,
     tour |-> tourAfter(name, arg), tickEnd |-> tickEndAfter(name, arg, ran)]

Constructed ==
    /\ aircraft = AircraftConstructed
    /\ input = InputConstructed
    /\ camera = CameraConstructed
    /\ game = [isFlying |-> FALSE, isPaused |-> FALSE, running |-> FALSE, clockLag |-> 0]
    /\ airports = [data |-> {}, dialog |-> "null", destinationAirport |-> "null",
                   selectedAirport |-> "null", menu |-> FALSE, panel |-> "null"]
    /\ hud = HudConstructed
    /\ audio = AudioConstructed
    /\ op = [name |-> "construct", arg |-> "-", thrown |-> "none", ran |-> <<>>,
             prev |-> "none", tour |-> <<>>,
             tickEnd |-> [seen |-> FALSE, active |-> FALSE, progress |-> 0,
                          restarts |-> 0]]
    /\ steps = 0

\* The observation a call of Camera.setView(view, animate) leaves.
watch(cam, view, animate) ==
    IF view \notin ViewNames THEN probe
    ELSE IF startsTransition(cam, view, animate)
    THEN [stage |-> "transition", target |-> view, since |-> 0, ticks |-> 0]
    ELSE NoProbe

\* The observation after a frame in which Camera.update ran for deltaTime.
elapse(deltaTime) ==
    IF probe.stage = "transition"
    THEN [probe EXCEPT !.since = @ + deltaTime, !.ticks = @ + 1]
    ELSE probe

\* Game.init(): initModules and setupEvents, then the animation loop starts.
GameInit ==
    /\ ~game.running
    /\ aircraft' = init(aircraft, "cessna")
    /\ airports' = [airports EXCEPT !.data = AirportData]
    /\ camera' = CameraInit(camera)
    /\ probe' = watch(camera, "thirdPerson", FALSE)
    /\ game' = [game EXCEPT !.running = TRUE]
    /\ op' = Op("Game.init", "-", "none", <<>>)
    /\ earth' = earthInit(earth)
    /\ hud' = hudInit(hud)
    /\ steps' = steps + 1
    /\ UNCHANGED audio
    /\ UNCHANGED <<input, controls>>

\* Aircraft.setType(type)
AircraftSetType(type) ==
    /\ aircraft' = setType(aircraft, type)
    /\ op' = Op("Aircraft.setType", type,
                IF setTypeThrows(aircraft) THEN "TypeError" ELSE "none", <<>>)
    /\ steps' = steps + 1
    /\ UNCHANGED audio
    /\ UNCHANGED <<earth, hud>>
    /\ UNCHANGED <<probe, input, controls, camera, game, airports>>

\* Aircraft.takeoff(airport)
AircraftTakeoff(airport) ==
    /\ aircraft' = takeoff(aircraft, airport)
    /\ op' = Op("Aircraft.takeoff", airport.icao,
                IF takeoffThrows(aircraft) THEN "TypeError" ELSE "none", <<>>)
    /\ steps' = steps + 1
    /\ UNCHANGED audio
    /\ UNCHANGED <<earth, hud>>
    /\ UNCHANGED <<probe, input, controls, camera, game, airports>>

\* Aircraft.stabilize(), the onStabilize callback of the Space key and of the
\* mobile stabilize button.
AircraftStabilize ==
    /\ aircraft' = stabilize(aircraft)
    /\ op' = Op("Aircraft.stabilize", "-", "none", <<>>)
    /\ steps' = steps + 1
    /\ UNCHANGED audio
    /\ UNCHANGED <<earth, hud>>
    /\ UNCHANGED <<probe, input, controls, camera, game, airports>>

\* Aircraft.setInput(input)
AircraftSetInput(raw) ==
    /\ input' = setInput(input, raw)
    /\ op' = Op("Aircraft.setInput", raw, "none", <<>>)
    /\ steps' = steps + 1
    /\ UNCHANGED audio
    /\ UNCHANGED <<earth, hud>>
    /\ UNCHANGED <<probe, aircraft, controls, camera, game, airports>>

\* Camera.setView(view, animate)
CameraSetView(view, animate) ==
    /\ camera' = setView(camera, view, animate)
    /\ probe' = watch(camera, view, animate)
    /\ op' = Op("Camera.setView", [view |-> view, animate |-> animate],
                IF setViewThrows(camera, view, animate) THEN "TypeError" ELSE "none",
                <<>>)
    /\ steps' = steps + 1
    /\ UNCHANGED audio
    /\ UNCHANGED <<earth, hud>>
    /\ UNCHANGED <<aircraft, input, controls, game, airports>>

\* Camera.nextView(), the onViewChange callback of the V key.
CameraNextView ==
    /\ camera' = nextView(camera)
    /\ probe' = watch(camera, nextViewName(camera), TRUE)
    /\ op' = Op("Camera.nextView", nextViewName(camera), "none",
                <<"Camera.setView", "viewChanged">>)
    /\ steps' = steps + 1
    /\ UNCHANGED audio
    /\ hud' = updateViewIndicator(hud, nextViewName(camera))
    /\ UNCHANGED earth
    /\ UNCHANGED <<aircraft, input, controls, game, airports>>

\* Airports.takeoffFrom(icao), with the takeoff listener of Game.setupEvents.
AirportsTakeoffFrom(icao) ==
    LET found   == {a \in airports.data : a.icao = icao}
        airport == CHOOSE a \in found : TRUE
    IN  /\ steps' = steps + 1
        /\ UNCHANGED <<input, controls, earth>>
        /\ IF found = {} THEN
               /\ op' = Op("Airports.takeoffFrom", icao, "none", <<>>)
               /\ UNCHANGED <<probe, aircraft, camera, game, airports, hud, audio>>
           ELSE IF aircraft.currentType = "null" THEN
               /\ airports' = [hideAirportInfo(airports) EXCEPT !.dialog = icao]
               /\ op' = Op("Airports.takeoffFrom", icao, "none", <<"showAircraftSelection">>)
               /\ UNCHANGED <<probe, aircraft, camera, game, hud, audio>>
           ELSE IF takeoffThrows(aircraft) THEN
               /\ aircraft' = takeoff(aircraft, airport)
               /\ op' = Op("Airports.takeoffFrom", icao, "TypeError", <<"Aircraft.takeoff">>)
               /\ airports' = hideAirportInfo(airports)
               /\ UNCHANGED <<probe, camera, game, hud, audio>>
           ELSE
               /\ aircraft' = takeoff(aircraft, airport)
               /\ camera' = setView(camera, "thirdPerson", TRUE)
               /\ probe' = watch(camera, "thirdPerson", TRUE)
               /\ hud' = hudShow(hud)
               /\ game' = [game EXCEPT !.isFlying = TRUE]
               /\ audio' = takeoffListener(audio)
               /\ op' = Op("Airports.takeoffFrom", icao, "none",
                           <<"Aircraft.takeoff", "HUD.show", "Camera.setView", "takeoff">>)
               /\ airports' = hideAirportInfo(airports)

\* clock.getDelta() in a frame that comes elapsed after the frame before it:
\* the time since the clock was last read.  clockLag is the time between
\* that reading and the frame before this one.
getDelta(g, elapsed) == g.clockLag + elapsed

\* Game.animate(): one frame.  c is Controls as the frame finds it and
\* elapsed is the time since the frame before it; a paused frame returns
\* before it reads the clock.
Animate(c, elapsed) ==
    LET deltaTime == getDelta(game, elapsed) IN
    /\ game.running
    /\ steps' = steps + 1
    /\ UNCHANGED audio
    /\ UNCHANGED airports
    /\ game' = [game EXCEPT !.clockLag = IF game.isPaused THEN @ + elapsed ELSE 0]
    /\ IF game.isPaused THEN
           /\ op' = Op("Game.animate", elapsed, "none", <<>>)
           /\ controls' = c
           /\ UNCHANGED <<probe, aircraft, input, camera, earth, hud>>
       ELSE IF game.isFlying THEN
           LET c1  == ControlsUpdate(c)
               in1 == setInput(input, c1.output)
               ac1 == update(aircraft, in1, deltaTime)
               thr == cameraUpdateThrows(ac1)
           IN  /\ controls' = c1
               /\ input' = in1
               /\ aircraft' = aircraftAfterCamera(camera, ac1, deltaTime)
               /\ camera' = CameraUpdate(camera, ac1, deltaTime)
               /\ earth' = IF thr THEN earth
                           ELSE updateDayNight(earth, getPosition(ac1), earth.mode)
               /\ hud' = IF thr THEN hud
                         ELSE hudUpdate(hud, getDistanceToDestination(ac1))
               /\ probe' = IF cameraUpdates(ac1) THEN elapse(deltaTime) ELSE probe
               /\ op' = Op("Game.animate", deltaTime,
                           IF thr THEN "TypeError" ELSE "none",
                           <<"Controls.update", "Aircraft.setInput", "Aircraft.update",
                             "Camera.update">>
                           \o (IF thr THEN <<>>
                               ELSE <<"Earth.updateDayNight", "HUD.update", "render">>))
       ELSE
           /\ controls' = ControlsUpdate(c)
           /\ op' = Op("Game.animate", deltaTime, "none",
                       <<"Controls.update", "orbitControls.update", "render">>)
           /\ UNCHANGED <<probe, aircraft, input, camera, earth, hud>>

\* The keydown listener of Controls.setupKeyboardControls, with the callbacks
\* Game.initModules registers for the V and Space keys.
KeyDown(code) ==
    /\ game.running
    /\ controls' = [controls EXCEPT !.keys = @ \cup {code}]
    /\ aircraft' = IF code = "Space" THEN stabilize(aircraft) ELSE aircraft
    /\ camera' = IF code = "KeyV" THEN nextView(camera) ELSE camera
    /\ probe' = IF code = "KeyV" THEN watch(camera, nextViewName(camera), TRUE) ELSE probe
    /\ hud' = IF code = "KeyV" THEN updateViewIndicator(hud, nextViewName(camera)) ELSE hud
    /\ airports' = IF code = "KeyM" THEN showMenu(airports) ELSE airports
    /\ op' = Op("keydown", code, "none",
                IF code = "Space" THEN <<"Aircraft.stabilize">>
                ELSE IF code = "KeyV" THEN <<"Camera.nextView">>
                ELSE IF code = "KeyM" THEN <<"Airports.showMenu">> ELSE <<>>)
    /\ steps' = steps + 1
    /\ UNCHANGED audio
    /\ UNCHANGED <<earth, input, game>>

\* The keyup listener.
KeyUp(code) ==
    /\ game.running
    /\ controls' = [controls EXCEPT !.keys = @ \ {code}]
    /\ op' = Op("keyup", code, "none", <<>>)
    /\ steps' = steps + 1
    /\ UNCHANGED audio
    /\ UNCHANGED <<earth, hud>>
    /\ UNCHANGED <<probe, aircraft, input, camera, game, airports>>

\* The blur listener: every key is released.
Blur ==
    /\ game.running
    /\ controls' = [controls EXCEPT !.keys = {}]
    /\ op' = Op("blur", "-", "none", <<>>)
    /\ steps' = steps + 1
    /\ UNCHANGED audio
    /\ UNCHANGED <<earth, hud>>
    /\ UNCHANGED <<probe, aircraft, input, camera, game, airports>>

\* Controls.handleJoystickStart(e): the touch lies dx, dy from the centre of
\* the joystick base.
JoystickStart(dx, dy) ==
    /\ game.running /\ controls.mobile
    /\ controls' = updateJoystickPosition([controls EXCEPT !.joystickActive = TRUE], dx, dy)
    /\ op' = Op("touchstart", <<dx, dy>>, "none", <<"updateJoystickPosition">>)
    /\ steps' = steps + 1
    /\ UNCHANGED audio
    /\ UNCHANGED <<earth, hud>>
    /\ UNCHANGED <<probe, aircraft, input, camera, game, airports>>

\* Controls.handleJoystickMove(e)
JoystickMove(dx, dy) ==
    /\ game.running /\ controls.mobile
    /\ controls' = IF controls.joystickActive
                   THEN updateJoystickPosition(controls, dx, dy) ELSE controls
    /\ op' = Op("touchmove", <<dx, dy>>, "none",
                IF controls.joystickActive THEN <<"updateJoystickPosition">> ELSE <<>>)
    /\ steps' = steps + 1
    /\ UNCHANGED audio
    /\ UNCHANGED <<earth, hud>>
    /\ UNCHANGED <<probe, aircraft, input, camera, game, airports>>

\* Controls.handleJoystickEnd(e)
JoystickEnd ==
    /\ game.running /\ controls.mobile
    /\ controls' = [controls EXCEPT !.joystickActive = FALSE,
                                    !.output.pitch = 0, !.output.roll = 0]
    /\ op' = Op("touchend", "-", "none", <<>>)
    /\ steps' = steps + 1
    /\ UNCHANGED audio
    /\ UNCHANGED <<earth, hud>>
    /\ UNCHANGED <<probe, aircraft, input, camera, game, airports>>

\* The touchstart and touchend listeners of the accelerate and decelerate
\* buttons: throttle is what they store in Controls.output.throttle.
ThrottleButton(throttle) ==
    /\ game.running /\ controls.mobile
    /\ controls' = [controls EXCEPT !.output.throttle = throttle * Milli]
    /\ op' = Op("throttleButton", throttle, "none", <<>>)
    /\ steps' = steps + 1
    /\ UNCHANGED audio
    /\ UNCHANGED <<earth, hud>>
    /\ UNCHANGED <<probe, aircraft, input, camera, game, airports>>

\* The deviceorientation listener of Controls.setupGyroscopeControls,
\* installed on a mobile device in gyroscope mode; beta, gamma in degrees.
DeviceOrientation(beta, gamma) ==
    /\ game.running /\ controls.mobile /\ controls.controlMode = "gyroscope"
    /\ controls' = [controls EXCEPT !.gyro = [beta |-> beta, gamma |-> gamma]]
    /\ op' = Op("deviceorientation", <<beta, gamma>>, "none", <<>>)
    /\ steps' = steps + 1
    /\ UNCHANGED audio
    /\ UNCHANGED <<earth, hud>>
    /\ UNCHANGED <<probe, aircraft, input, camera, game, airports>>

\* Camera.update(Aircraft, deltaTime), called by itself.
CameraUpdateCall(deltaTime) ==
    /\ camera' = CameraUpdate(camera, aircraft, deltaTime)
    /\ aircraft' = aircraftAfterCamera(camera, aircraft, deltaTime)
    /\ probe' = IF cameraUpdates(aircraft) THEN elapse(deltaTime) ELSE probe
    /\ op' = Op("Camera.update", deltaTime,
                IF cameraUpdateThrows(aircraft) THEN "TypeError" ELSE "none", <<>>)
    /\ steps' = steps + 1
    /\ UNCHANGED audio
    /\ UNCHANGED <<earth, hud>>
    /\ UNCHANGED <<input, controls, game, airports>>

\* Earth.updateDayNight(position, mode), called by itself; the step counter
\* is left to the caller.
EarthUpdateDayNight(position, mode) ==
    /\ earth' = updateDayNight(earth, position, mode)
    /\ op' = Op("Earth.updateDayNight", mode, "none", <<>>)
    /\ UNCHANGED <<aircraft, input, controls, camera, game, airports, hud, audio>>

\* HUD.update(data) with the distance Game.animate hands it,
\* Aircraft.getDistanceToDestination().
HudUpdateCall ==
    /\ hud' = hudUpdate(hud, getDistanceToDestination(aircraft))
    /\ op' = Op("HUD.update", "-", "none", <<>>)
    /\ steps' = steps + 1
    /\ UNCHANGED audio
    /\ UNCHANGED <<probe, aircraft, input, controls, camera, game, airports, earth>>

\* Airports.setAsDestination(icao)
AirportsSetAsDestination(icao) ==
    LET found   == {a \in airports.data : a.icao = icao}
        airport == CHOOSE a \in found : TRUE
    IN  /\ steps' = steps + 1
        /\ UNCHANGED <<probe, input, controls, camera, game, earth, hud, audio>>
        /\ op' = Op("Airports.setAsDestination", icao, "none", <<>>)
        /\ IF found = {} THEN UNCHANGED <<aircraft, airports>>
           ELSE /\ airports' = [hideAirportInfo(airports) EXCEPT !.destinationAirport = icao]
                /\ aircraft' = setDestination(aircraft, airport)

\* Game.onClick(e) for a click outside the UI elements.
Click(hit) ==
    /\ game.running
    /\ airports' = onPointer(game, airports, hit)
    /\ op' = Op("click", hit, "none",
                IF game.isFlying THEN <<>> ELSE <<"Airports.checkIntersection">>)
    /\ steps' = steps + 1
    /\ UNCHANGED audio
    /\ UNCHANGED <<probe, aircraft, input, controls, camera, game, earth, hud>>

\* Game.onTouch(e) for a touch that ends outside the UI elements.
Touch(hit) ==
    /\ game.running
    /\ airports' = onPointer(game, airports, hit)
    /\ op' = Op("touchend", hit, "none",
                IF game.isFlying THEN <<>> ELSE <<"Airports.checkIntersection">>)
    /\ steps' = steps + 1
    /\ UNCHANGED audio
    /\ UNCHANGED <<probe, aircraft, input, controls, camera, game, earth, hud>>

\* The menu button of the HUD: onclick="Airports.showMenu()".
HudMenuButton ==
    /\ hud.created /\ hud.visible
    /\ airports' = showMenu(airports)
    /\ op' = Op("btn-menu", "-", "none", <<"Airports.showMenu">>)
    /\ steps' = steps + 1
    /\ UNCHANGED audio
    /\ UNCHANGED <<probe, aircraft, input, controls, camera, game, earth, hud>>

\* A click on an entry of the airport menu: Airports.selectFromMenu(icao).
MenuSelect(icao) ==
    /\ airports.menu
    /\ airports' = selectFromMenu(airports, icao)
    /\ op' = Op("Airports.selectFromMenu", icao, "none", <<>>)
    /\ steps' = steps + 1
    /\ UNCHANGED audio
    /\ UNCHANGED <<probe, aircraft, input, controls, camera, game, earth, hud>>

\* The takeoff button of the airport info panel.
PanelTakeoff ==
    /\ airports.panel # "null"
    /\ AirportsTakeoffFrom(airports.panel)

\* Game.pause()
GamePause ==
    /\ game' = [game EXCEPT !.isPaused = TRUE]
    /\ op' = Op("Game.pause", "-", "none", <<>>)
    /\ steps' = steps + 1
    /\ UNCHANGED audio
    /\ UNCHANGED <<probe, aircraft, input, controls, camera, airports, earth, hud>>

\* Game.resume()
GameResume ==
    /\ game' = [game EXCEPT !.isPaused = FALSE]
    /\ op' = Op("Game.resume", "-", "none", <<>>)
    /\ steps' = steps + 1
    /\ UNCHANGED audio
    /\ UNCHANGED <<probe, aircraft, input, controls, camera, airports, earth, hud>>

\* Audio.init()
AudioInit(state) ==
    /\ audio.context = "null"
    /\ audio' = audioInit(audio, state)
    /\ op' = Op("Audio.init", state, "none", <<>>)
    /\ steps' = steps + 1
    /\ UNCHANGED <<probe, aircraft, input, controls, camera, game, airports, earth, hud>>

\* The first click, touch or key after Audio.init.
AudioResume ==
    /\ audio.context = "suspended"
    /\ audio' = audioResume(audio)
    /\ op' = Op("Audio.resume", "-", "none", <<>>)
    /\ steps' = steps + 1
    /\ UNCHANGED <<probe, aircraft, input, controls, camera, game, airports, earth, hud>>

\* Audio.toggle()
AudioToggle ==
    /\ audio' = toggle(audio)
    /\ op' = Op("Audio.toggle", "-", "none",
                IF audio.enabled THEN <<"stopEngineSound", "stopWindSound">> ELSE <<>>)
    /\ steps' = steps + 1
    /\ UNCHANGED <<probe, aircraft, input, controls, camera, game, airports, earth, hud>>

\* A stop timer fires.  The timers all wait 500 ms, so they fire in the
\* order they were set.
StopTimerFires ==
    /\ audio.timers # {}
    /\ LET timer == CHOOSE t \in audio.timers : \A u \in audio.timers : t.id <= u.id
       IN  /\ audio' = stopTimer(audio, timer)
           /\ op' = Op("stopTimer", timer, "none", <<>>)
    /\ steps' = steps + 1
    /\ UNCHANGED <<probe, aircraft, input, controls, camera, game, airports, earth, hud>>

(***************************************************************************)
(* The flight: takeoffs, type changes, stabilize calls and frames, with    *)
(* the keys held and the frame time of each frame chosen freely.           *)
(***************************************************************************)
MaxSteps == 5

FlightKeys ==
    { {},
      {"KeyW", "KeyD", "KeyE", "ShiftLeft"},
      {"KeyS", "KeyA", "KeyQ", "ControlLeft"},
      {"KeyQ"} }

\* Frame times in centiseconds: none, half a second, twenty seconds, and a
\* frame after a long suspension of the page.
FlightDts == {0, 50, 2000, 1000000}

FlightTypes == TypeNames \cup {"glider"}

FlightInit ==
    /\ probe = NoProbe
    /\ earth = EarthConstructed
    /\ controls = ControlsConstructed(FALSE, "joystick")
    /\ Constructed

FlightFrame ==
    \E keys \in FlightKeys, dt \in FlightDts :
        Animate([controls EXCEPT !.keys = keys], dt)

FlightBound == steps < MaxSteps

FlightNext ==
    \/ FlightBound /\ GameInit
    \/ FlightBound /\ \E t \in FlightTypes : AircraftSetType(t)
    \/ FlightBound /\ \E a \in AirportData : AircraftTakeoff(a)
    \/ FlightBound /\ \E a \in AirportData : AirportsTakeoffFrom(a.icao)
    \/ FlightBound /\ AircraftStabilize
    \/ FlightBound /\ FlightFrame

SpecFlight == FlightInit /\ [][FlightNext]_vars

(***************************************************************************)
(* The input devices: keyboard, joystick, gyroscope, throttle buttons and  *)
(* direct setInput calls, on a desktop or a mobile device.                 *)
(***************************************************************************)
MaxInputSteps == 5

InputCodes == {"KeyW", "KeyS", "KeyQ", "ShiftLeft", "Space", "KeyV"}

\* Touch displacements in pixels; the joystick's maxDistance is 40.
JoystickTouches == {<<0, 0>>, <<30, -20>>, <<300, 0>>, <<-300, 300>>}

\* Device orientation readings <<beta, gamma>> in degrees.
GyroReadings == {<<0, 0>>, <<-15, 10>>, <<45, -90>>, <<180, -180>>}

\* Arguments of direct setInput calls, in thousandths.
RawInputs ==
    {[pitch |-> 5000, roll |-> -5000, yaw |-> 1500, throttle |-> -1001],
     [pitch |-> -300],
     [yaw |-> -1000000, throttle |-> 1000000]}

InputDts == {0, 50}

InputInit ==
    /\ probe = NoProbe
    /\ earth = EarthConstructed
    /\ \E mobile \in BOOLEAN, controlMode \in {"joystick", "gyroscope"} :
           controls = ControlsConstructed(mobile, controlMode)
    /\ Constructed

InputFrame == \E dt \in InputDts : Animate(controls, dt)

InputBound == steps < MaxInputSteps

InputNext ==
    \/ InputBound /\ GameInit
    \/ InputBound /\ \E a \in AirportData : AirportsTakeoffFrom(a.icao)
    \/ InputBound /\ \E code \in InputCodes : KeyDown(code)
    \/ InputBound /\ \E code \in InputCodes : KeyUp(code)
    \/ InputBound /\ Blur
    \/ InputBound /\ \E t \in JoystickTouches : JoystickStart(t[1], t[2])
    \/ InputBound /\ \E t \in JoystickTouches : JoystickMove(t[1], t[2])
    \/ InputBound /\ JoystickEnd
    \/ InputBound /\ \E v \in {-1, 0, 1} : ThrottleButton(v)
    \/ InputBound /\ \E g \in GyroReadings : DeviceOrientation(g[1], g[2])
    \/ InputBound /\ \E raw \in RawInputs : AircraftSetInput(raw)
    \/ InputBound /\ InputFrame

SpecInput == InputInit /\ [][InputNext]_vars

(***************************************************************************)
(* The camera: view changes and frames of a flight.                        *)
(***************************************************************************)
MaxCamSteps == 6

CamViews == ViewNames \cup {"chase"}

\* Frame times in centiseconds; the transition lasts 50.
CamDts == {10, 20, 30, 50}

CamInit ==
    /\ probe = NoProbe
    /\ earth = EarthConstructed
    /\ controls = ControlsConstructed(FALSE, "joystick")
    /\ Constructed

CamFrame == \E dt \in CamDts : Animate(controls, dt)

CamBound == steps < MaxCamSteps

CamNext ==
    \/ CamBound /\ GameInit
    \/ CamBound /\ \E a \in AirportData : AirportsTakeoffFrom(a.icao)
    \/ CamBound /\ \E v \in CamViews, animate \in BOOLEAN : CameraSetView(v, animate)
    \/ CamBound /\ CameraNextView
    \/ CamBound /\ CamFrame

SpecCamera == CamInit /\ [][CamNext]_vars

(***************************************************************************)
(* Coordinate conversions applied to a grid of geodetic positions.         *)
(***************************************************************************)
LatGrid == {-89, -60, -30, 0, 30, 45, 60, 89}
LonGrid == {-150, -120, -90, -60, -30, 0, 30, 60, 90, 120, 150, 180}
AltGrid == {0, 2 * Centi, 50 * Centi}

CoordInit ==
    /\ \E lat \in LatGrid, lon \in LonGrid, alt \in AltGrid :
        probe = [stage |-> "geo", lat |-> lat * Milli, lon |-> lon * Milli,
                 altitude |-> alt, vec |-> ZeroVec,
                 out |-> [lat |-> 0, lon |-> 0, altitude |-> 0]]
    /\ controls = ControlsConstructed(FALSE, "joystick")
    /\ earth = EarthConstructed
    /\ Constructed

Idle == UNCHANGED <<aircraft, input, controls, camera, game, airports, earth, hud, audio,
                    op, steps>>

CoordForward ==
    /\ probe.stage = "geo"
    /\ probe' = [probe EXCEPT !.stage = "vector",
                   !.vec = latLonToVector3(probe.lat, probe.lon, probe.altitude)]
    /\ Idle

CoordReverse ==
    /\ probe.stage = "vector"
    /\ probe' = [probe EXCEPT !.stage = "back",
                   !.out = vector3ToLatLon(probe.vec)]
    /\ Idle

CoordNext == CoordForward \/ CoordReverse

SpecCoord == CoordInit /\ [][CoordNext]_vars

(***************************************************************************)
(* Day and night: Earth.updateDayNight called frame after frame for a      *)
(* fixed place, clock and mode, from an overlay opacity left by earlier    *)
(* frames.                                                                 *)
(***************************************************************************)
DayNightModes == {"day", "night", "auto"}

\* UTC clock readings in minutes of the day (getUTCHours, getUTCMinutes).
UtcMinutes == {0, 5 * 60 + 59, 6 * 60, 6 * 60 + 1, 6 * 60 + 30, 7 * 60, 7 * 60 + 1,
               12 * 60, 17 * 60 + 59, 18 * 60, 18 * 60 + 45, 19 * 60, 19 * 60 + 1,
               23 * 60 + 59}

\* Longitudes in millidegrees.
DayNightLons == {0, -90 * Milli, 180 * Milli}

\* Overlay opacities in millionths.
StartOpacities == {0, 400 * Milli, Micro}

DayNightInit ==
    /\ \E mode \in DayNightModes, minutes \in UtcMinutes, lon \in DayNightLons,
          o \in StartOpacities :
          /\ earth = [nightLights |-> TRUE, opacity |-> o, mode |-> mode,
                      utc |-> RDiv(minutes * Milli, 60)]
          /\ probe = [stage |-> "daynight", lon |-> lon, ticked |-> FALSE,
                      start |-> o, before |-> o, hour |-> 0, target |-> 0]
    /\ controls = ControlsConstructed(FALSE, "joystick")
    /\ Constructed

DayNightTick ==
    /\ EarthUpdateDayNight([lat |-> 0, lon |-> probe.lon, altitude |-> 0], earth.mode)
    /\ probe' = [probe EXCEPT !.ticked = TRUE, !.before = earth.opacity,
                   !.hour = getLocalHour(earth.utc, probe.lon),
                   !.target = nightTarget(earth.mode, getLocalHour(earth.utc, probe.lon))]
    /\ UNCHANGED steps

DayNightNext == DayNightTick

SpecDayNight == DayNightInit /\ [][DayNightNext]_vars /\ WF_vars(DayNightTick)

(***************************************************************************)
(* Camera.update and Earth.updateDayNight called by themselves, on the     *)
(* ground and in flight, among the operations that change the aircraft.    *)
(***************************************************************************)
MaxEffectSteps == 5

EffectDts == {10, 50}

EffectInputs ==
    { [pitch |-> 0, roll |-> 0, yaw |-> 0, throttle |-> 0],
      [pitch |-> 1500, roll |-> -400, yaw |-> 0, throttle |-> 1000] }

EffectInit ==
    /\ probe = NoProbe
    /\ earth = EarthConstructed
    /\ controls = ControlsConstructed(FALSE, "joystick")
    /\ Constructed

EffectBound == steps < MaxEffectSteps

EffectNext ==
    \/ EffectBound /\ GameInit
    \/ EffectBound /\ \E a \in AirportData : AirportsTakeoffFrom(a.icao)
    \/ EffectBound /\ \E raw \in EffectInputs : AircraftSetInput(raw)
    \/ EffectBound /\ CameraNextView
    \/ EffectBound /\ \E dt \in EffectDts : CameraUpdateCall(dt)
    \/ EffectBound /\ \E lon \in DayNightLons, mode \in DayNightModes :
                         /\ EarthUpdateDayNight([lat |-> 0, lon |-> lon, altitude |-> 0], mode)
                         /\ steps' = steps + 1
                         /\ UNCHANGED probe
    \/ EffectBound /\ \E dt \in EffectDts : Animate(controls, dt)

SpecEffects == EffectInit /\ [][EffectNext]_vars

(***************************************************************************)
(* A trip: takeoffs, a destination chosen from the airport panel, frames   *)
(* and refreshes of the HUD.                                               *)
(***************************************************************************)
MaxTripSteps == 5

TripDts == {50, 2000}

TripCodes == {a.icao : a \in AirportData} \cup {"ZZZZ"}

TripInit ==
    /\ probe = NoProbe
    /\ earth = EarthConstructed
    /\ controls = ControlsConstructed(FALSE, "joystick")
    /\ Constructed

TripBound == steps < MaxTripSteps

TripNext ==
    \/ TripBound /\ GameInit
    \/ TripBound /\ \E icao \in TripCodes : AirportsTakeoffFrom(icao)
    \/ TripBound /\ \E icao \in TripCodes : AirportsSetAsDestination(icao)
    \/ TripBound /\ HudUpdateCall
    \/ TripBound /\ \E dt \in TripDts : Animate(controls, dt)

SpecTrip == TripInit /\ [][TripNext]_vars

(***************************************************************************)
(* Choosing airports: clicks and touches on the globe, the airport menu    *)
(* from the M key and from the HUD's button, and the info panel's takeoff  *)
(* button, before and during a flight.                                     *)
(***************************************************************************)
MaxSelectSteps == 6

SelectHits == {a.icao : a \in AirportData} \cup {"none"}

SelectInit ==
    /\ probe = NoProbe
    /\ earth = EarthConstructed
    /\ controls = ControlsConstructed(FALSE, "joystick")
    /\ Constructed

SelectBound == steps < MaxSelectSteps

SelectNext ==
    \/ SelectBound /\ GameInit
    \/ SelectBound /\ \E hit \in SelectHits : Click(hit)
    \/ SelectBound /\ \E hit \in SelectHits : Touch(hit)
    \/ SelectBound /\ KeyDown("KeyM")
    \/ SelectBound /\ HudMenuButton
    \/ SelectBound /\ \E a \in AirportData : MenuSelect(a.icao)
    \/ SelectBound /\ PanelTakeoff
    \/ SelectBound /\ \E dt \in {50} : Animate(controls, dt)

SpecSelect == SelectInit /\ [][SelectNext]_vars

(***************************************************************************)
(* Pausing: Game.pause and Game.resume among the frames of a flight.       *)
(***************************************************************************)
MaxPauseSteps == 6

\* Times between two frames, in centiseconds.
PauseDts == {2, 50}

PauseInit ==
    /\ probe = NoProbe
    /\ earth = EarthConstructed
    /\ controls = ControlsConstructed(FALSE, "joystick")
    /\ Constructed

PauseBound == steps < MaxPauseSteps

PauseNext ==
    \/ PauseBound /\ GameInit
    \/ PauseBound /\ \E a \in AirportData : AirportsTakeoffFrom(a.icao)
    \/ PauseBound /\ CameraNextView
    \/ PauseBound /\ GamePause
    \/ PauseBound /\ GameResume
    \/ PauseBound /\ \E dt \in PauseDts : Animate(controls, dt)

SpecPause == PauseInit /\ [][PauseNext]_vars

(***************************************************************************)
(* The engine sound: takeoffs, Audio.toggle and the stop timers.           *)
(***************************************************************************)
MaxAudioSteps == 10

AudioInitSpec ==
    /\ probe = NoProbe
    /\ earth = EarthConstructed
    /\ controls = ControlsConstructed(FALSE, "joystick")
    /\ Constructed

AudioBound == steps < MaxAudioSteps

AudioNext ==
    \/ AudioBound /\ GameInit
    \/ AudioBound /\ \E state \in {"suspended", "running"} : AudioInit(state)
    \/ AudioBound /\ AudioResume
    \/ AudioBound /\ AirportsTakeoffFrom("EQ000")
    \/ AudioBound /\ AudioToggle
    \/ AudioBound /\ StopTimerFires

SpecAudio == AudioInitSpec /\ [][AudioNext]_vars

(***************************************************************************)
(* Claims.                                                                 *)
(***************************************************************************)
\* The last operation was a frame in which Aircraft.update ran on a flying
\* aircraft.
Ticked ==
    /\ op.name = "Game.animate"
    /\ Len(op.ran) >= 3
    /\ op.ran[3] = "Aircraft.update"
    /\ aircraft.isFlying

\* Rounding allowance of a length computed from rounded components (centi-units).
Eps == 1 + 1

\* C1: the geodetic -> Cartesian -> geodetic round trip returns the latitude,
\* the longitude and (within rounding) the altitude it started from.
C1_RoundTrip ==
    probe.stage = "back" =>
        /\ probe.out.lat = probe.lat
        /\ probe.out.lon = probe.lon
        /\ Abs(probe.out.altitude - probe.altitude) <= Eps

\* The part of the round trip the code does keep: latitude and altitude.
C1_LatAltKept ==
    probe.stage = "back" =>
        /\ probe.out.lat = probe.lat
        /\ Abs(probe.out.altitude - probe.altitude) <= Eps

\* What the reverse transform returns for the longitude: the antipodal meridian.
C1_LonAntipodal ==
    probe.stage = "back" =>
        probe.out.lon = (IF probe.lon > 0 THEN probe.lon - HalfTurn
                         ELSE probe.lon + HalfTurn)
                        - (IF probe.lon = 0 THEN FullTurn ELSE 0)

\* C2: after every frame in which Aircraft.update ran on a flying aircraft,
\* whatever the keys held, the aircraft type and the frame time, the heading
\* is in [0, 360).
C2_HeadingInRange ==
    Ticked => (0 <= aircraft.heading /\ aircraft.heading < FullTurn)

\* C3: after every such frame, also with stabilize() calls between frames,
\* the pitch is in [-80, 80] and the roll is in [-60, 60].
C3_PitchRollClamped ==
    Ticked =>
        /\ -80 * Milli <= aircraft.pitch /\ aircraft.pitch <= 80 * Milli
        /\ -60 * Milli <= aircraft.roll /\ aircraft.roll <= 60 * Milli

\* A frame right after a stabilize() call in which both clamps acted.
C3_Witness ==
    /\ Ticked
    /\ op.prev = "Aircraft.stabilize"
    /\ aircraft.pitch = 80 * Milli
    /\ aircraft.roll = 60 * Milli

\* C4: after every such frame the speed is within [minSpeed, maxSpeed] of the
\* type that is active, also when setType or a new takeoff ran between frames.
C4_SpeedWithinType ==
    Ticked =>
        /\ types[aircraft.currentType].minSpeed * Centi <= aircraft.speed
        /\ aircraft.speed <= types[aircraft.currentType].maxSpeed * Centi

\* A frame right after a switch to the jet, in which the upper clamp acted.
C4_Witness ==
    /\ Ticked
    /\ op.prev = "Aircraft.setType"
    /\ aircraft.currentType = "jet"
    /\ aircraft.speed = types["jet"].maxSpeed * Centi

\* C5: after every such frame the distance of the position from the centre
\* is within [sceneRadius + 0.5, sceneRadius + 50], and state.altitude is that
\* distance minus sceneRadius (both within the rounding of a length).
C5_AltitudeBand ==
    Ticked =>
        LET d == Length(aircraft.position)
        IN  /\ sceneRadius * Centi + 50 - Eps <= d
            /\ d <= sceneRadius * Centi + 50 * Centi + Eps
            /\ Abs(aircraft.altitude - (d - sceneRadius * Centi)) <= Eps

\* A long frame that flew the aircraft below the floor, where the clamp acted.
C5_Witness ==
    /\ Ticked
    /\ op.arg = 1000000
    /\ aircraft.altitude = 50
    /\ Abs(Length(aircraft.position) - (sceneRadius * Centi + 50)) <= Eps

\* C6: whatever the input events and the setInput calls, each of the four
\* channels Aircraft.update integrates is within [-1, 1].
C6_ChannelsClamped ==
    \A ch \in DOMAIN input : -Milli <= input[ch] /\ input[ch] <= Milli

\* A flying frame on a mobile device with the joystick held far outside its
\* range: the roll channel integrated is at its limit.
C6_Witness ==
    /\ Ticked
    /\ controls.mobile
    /\ controls.joystickActive
    /\ controls.output.roll = Milli
    /\ input.roll = Milli

\* C7: starting a flight while currentType is null starts nothing: the
\* aircraft is not flying afterwards, its state is unchanged and its type is
\* still null.
C7_NoTypeNoFlight ==
    [][(/\ aircraft.currentType = "null"
        /\ steps' # steps
        /\ op'.name \in {"Aircraft.takeoff", "Airports.takeoffFrom"})
       => (/\ ~aircraft'.isFlying
           /\ aircraft'.currentType = "null"
           /\ aircraft' = aircraft)]_vars

\* C8: in every unpaused frame of a flight each step runs once, in the order
\* Controls.update, Aircraft.update, Camera.update, Earth.updateDayNight,
\* HUD.update, render.
C8_TickOrder ==
    (op.name = "Game.animate" /\ game.isFlying /\ ~game.isPaused) =>
        /\ op.thrown = "none"
        /\ op.ran = <<"Controls.update", "Aircraft.setInput", "Aircraft.update",
                      "Camera.update", "Earth.updateDayNight", "HUD.update", "render">>

\* C9: once the flying frames since an animated setView to another view add
\* up to exactly transition.duration, with no view change in between, the
\* camera state equals the target view's parameters and the transition is
\* inactive.
C9_TransitionCompletes ==
    (probe.stage = "transition" /\ probe.since = camera.transition.duration) =>
        /\ camera.state = viewSettings[probe.target]
        /\ ~camera.transition.active

\* A transition to the overhead view completed by three frames.
C9_Witness ==
    /\ probe.stage = "transition"
    /\ probe.since = camera.transition.duration
    /\ probe.ticks = 3
    /\ probe.target = "overhead"
    /\ op.name = "Game.animate"

\* C10: setView(v, true) called while v is already the current view starts no
\* new transition: progress, from, to and active keep their values.
C10_SameViewNoRestart ==
    [][(/\ steps' # steps
        /\ op'.name = "Camera.setView"
        /\ op'.arg.animate
        /\ op'.arg.view = camera.currentView)
       => camera'.transition = camera.transition]_vars

\* A second setView(v, true) while the transition to v is under way.
C10_Witness ==
    /\ op.name = "Camera.setView"
    /\ op.arg.animate
    /\ op.prev = "Game.animate"
    /\ camera.currentView = op.arg.view
    /\ camera.transition.active
    /\ camera.transition.progress > 0
    /\ camera.transition.to = viewSettings[op.arg.view]

\* C11: n nextView() calls in a row starting at view i end at view (i + n)
\* mod 3, so three calls return to the starting view having set each other
\* view once; every call leaves a transition active at progress 0 towards the
\* view it set.
C11_NextViewCycle ==
    /\ Len(op.tour) >= 2 =>
         LET n == Len(op.tour) - 1
         IN  /\ \A k \in 1..n :
                   op.tour[k + 1] = views[((indexOf(op.tour[1]) - 1 + k) % Len(views)) + 1]
             /\ camera.currentView = op.tour[n + 1]
             /\ n >= 3 => /\ op.tour[4] = op.tour[1]
                          /\ {op.tour[2], op.tour[3]} = ViewNames \ {op.tour[1]}
    /\ op.name = "Camera.nextView" =>
         /\ camera.transition.active
         /\ camera.transition.progress = 0
         /\ camera.transition.to = viewSettings[camera.currentView]
         /\ op.tickEnd.restarts = 1

\* Three nextView() calls in a row from the first view of the list.
C11_Witness ==
    /\ op.name = "Camera.nextView"
    /\ op.prev = "Camera.nextView"
    /\ Len(op.tour) = 4
    /\ op.tour[1] = views[1]
    /\ camera.currentView = views[1]

\* C12 as stated: at the end of every frame progress is in [0, 1], and if
\* the transition was active at the end of the frame before and is active
\* now, progress is not lower than it was, whatever nextView / setView calls
\* ran in between.
C12_ProgressMonotone ==
    op.name = "Game.animate" =>
        /\ 0 <= camera.transition.progress
        /\ camera.transition.progress <= Milli
        /\ (op.tickEnd.seen /\ op.tickEnd.active /\ camera.transition.active)
               => camera.transition.progress >= op.tickEnd.progress

\* C12 amended: the same, for two frames between which no call started a new
\* transition; such a call resets progress to 0.
C12_ProgressMonotoneNoRestart ==
    op.name = "Game.animate" =>
        /\ 0 <= camera.transition.progress
        /\ camera.transition.progress <= Milli
        /\ (op.tickEnd.seen /\ op.tickEnd.active /\ camera.transition.active
              /\ op.tickEnd.restarts = 0)
               => camera.transition.progress >= op.tickEnd.progress

\* Two flying frames in a row that advanced one transition.
C12_Witness ==
    /\ op.name = "Game.animate"
    /\ op.tickEnd.seen /\ op.tickEnd.active /\ op.tickEnd.restarts = 0
    /\ op.tickEnd.progress > 0
    /\ camera.transition.active
    /\ camera.transition.progress > op.tickEnd.progress

\* The night overlay's target opacity, in thousandths, as the day-night rule
\* states it for a mode and a local hour in milli-hours.
DayNightRule(mode, h) ==
    IF mode = "day" THEN 0
    ELSE IF mode = "night" THEN Milli
    ELSE IF h < 6 * Milli \/ h > 19 * Milli THEN Milli
    ELSE IF h > 7 * Milli /\ h < 18 * Milli THEN 0
    ELSE IF h <= 7 * Milli THEN 7 * Milli - h
    ELSE h - 18 * Milli

\* C13: the target opacity of the night overlay is 0 in day mode, 1 in night
\* mode, and in auto mode 1 before hour 6 and after hour 19, 0 strictly
\* between 7 and 18, falling linearly from 1 to 0 over [6,7] and rising
\* linearly from 0 to 1 over [18,19]; it lies in [0,1] and does not jump at
\* the breakpoints (neighbouring milli-hours differ by at most a thousandth).
C13_NightTarget ==
    (probe.stage = "daynight" /\ probe.ticked) =>
        /\ probe.hour >= 0 /\ probe.hour < 24 * Milli
        /\ probe.target = DayNightRule(earth.mode, probe.hour)
        /\ probe.target >= 0 /\ probe.target <= Milli
        /\ \A h \in {6 * Milli, 7 * Milli, 18 * Milli, 19 * Milli, probe.hour} :
              \A d \in {-1, 1} :
                 Abs(nightTarget(earth.mode, h + d) - nightTarget(earth.mode, h)) <= 1

\* A frame in auto mode at a local hour inside the dawn ramp, with a target
\* strictly between 0 and 1.
C13_Witness ==
    /\ probe.stage = "daynight" /\ probe.ticked /\ earth.mode = "auto"
    /\ probe.hour > 6 * Milli /\ probe.hour < 7 * Milli
    /\ probe.target > 0 /\ probe.target < Milli

\* The smallest distance, in millionths, from which a frame's 2% step is at
\* least one millionth; nearer than this the modelled opacity rests.
Quantum == 25 + 1

TargetNow == nightTarget(earth.mode, getLocalHour(earth.utc, probe.lon)) * Milli

\* One frame of smoothing: the opacity stays in [0,1], moves strictly toward
\* the target, stays on the side it was on, and does not land on the target.
SmoothStep ==
    (probe.stage = "daynight" /\ probe.ticked) =>
        LET t == probe.target * Milli
            b == probe.before
            o == earth.opacity
        IN  /\ o >= 0 /\ o <= Micro
            /\ b = t => o = t
            /\ b < t => o >= b /\ o < t /\ (t - b >= Quantum => o > b)
            /\ b > t => o <= b /\ o > t /\ (b - t >= Quantum => o < b)

\* C14: with mode and local hour held fixed, every frame keeps the overlay
\* opacity in [0,1] and moves it strictly toward the target without passing
\* it or reaching it in one frame, and the opacity converges to the target
\* (auto at hour 12 to 0, auto at hour 0 to 1).
C14_OpacityConverges ==
    /\ []SmoothStep
    /\ <>[](probe.stage = "daynight" => Abs(earth.opacity - TargetNow) < Quantum)

\* A frame that moved the opacity and left it next to a target that lay the
\* whole range away from the opacity the frames started from.
C14_Witness ==
    /\ probe.stage = "daynight" /\ probe.ticked
    /\ Abs(probe.start - probe.target * Milli) = Micro
    /\ probe.before # earth.opacity
    /\ Abs(earth.opacity - probe.target * Milli) < Quantum

\* C15: with speed and base field of view held constant (a flying aircraft,
\* no view transition in progress), the smoothed field of view after a frame
\* of dt equals, to the model's resolution, the one after two frames of dt/2.
C15_FovPartition ==
    (cameraUpdates(aircraft) /\ ~camera.transition.active) =>
        \A dt \in CamDts :
            LET half == dt \div 2
                once  == cameraUpdatePrefix(camera, aircraft, dt)
                twice == cameraUpdatePrefix(cameraUpdatePrefix(camera, aircraft, half),
                                            aircraft, half)
            IN  Abs(once.currentFOV - twice.currentFOV) <= Eps

\* The operations of Aircraft, alone or as part of a handler.
AircraftWriters ==
    {"Game.init", "Aircraft.setType", "Aircraft.takeoff", "Aircraft.stabilize",
     "Airports.takeoffFrom", "Airports.setAsDestination", "keydown", "Game.animate"}

\* C16: Camera.update and Earth.updateDayNight leave the aircraft state and
\* the aircraft input as they found them: a step of either changes neither,
\* a flying frame leaves the aircraft as Aircraft.update made it, and every
\* step that changes the aircraft or its input runs an operation of Aircraft.
C16_AircraftReadOnly ==
    [][ /\ op'.name \in {"Camera.update", "Earth.updateDayNight"}
            => aircraft' = aircraft /\ input' = input
        /\ (op'.name = "Game.animate" /\ game.isFlying /\ ~game.isPaused)
            => aircraft' = update(aircraft, input', op'.arg)
        /\ aircraft' # aircraft => op'.name \in AircraftWriters
        /\ input' # input => op'.name \in {"Aircraft.setInput", "Game.animate"} ]_vars

\* Camera.update ran its body on a flying aircraft at speed with input applied,
\* right after a call of Earth.updateDayNight on an Earth with its overlay.
C16_Witness ==
    /\ op.name = "Camera.update" /\ op.thrown = "TypeError"
    /\ op.prev = "Earth.updateDayNight" /\ earth.nightLights
    /\ aircraft.isFlying /\ aircraft.speed > 0
    /\ input # InputConstructed

\* C17: Camera.update for an aircraft that is not flying, called by itself or
\* by a frame, leaves the whole camera record unchanged; a transition no
\* flying frame has advanced yet is still at progress 0.
C17_GroundedCameraIdle ==
    /\ [][ (op'.name \in {"Camera.update", "Game.animate"} /\ ~aircraft.isFlying)
              => camera' = camera ]_vars
    /\ []((probe.stage = "transition" /\ probe.ticks = 0)
              => camera.transition.active /\ camera.transition.progress = 0)

\* Camera.update was called on the ground right after nextView started a
\* transition, with the aircraft's group in place.
C17_Witness ==
    /\ op.name = "Camera.update" /\ op.prev = "Camera.nextView"
    /\ aircraft.group /\ ~aircraft.isFlying
    /\ camera.transition.active /\ camera.transition.progress = 0

\* C18: a takeoff that completes leaves altitude 2, heading, pitch and roll 0,
\* the speed at the active type's cruise speed, the position at radius
\* sceneRadius + 2 above the airport, the aircraft flying, and velocity and
\* destination as a newly constructed aircraft has them, whatever the state
\* before it.
C18_TakeoffResets ==
    [][ (op'.name = "Aircraft.takeoff" /\ op'.thrown = "none") =>
            LET airport == CHOOSE a \in AirportData : a.icao = op'.arg
            IN  /\ aircraft'.altitude = 2 * Centi
                /\ aircraft'.heading = 0 /\ aircraft'.pitch = 0 /\ aircraft'.roll = 0
                /\ aircraft'.speed = types[aircraft'.currentType].speed * Centi
                /\ aircraft'.position = latLonToVector3(airport.lat, airport.lon, 2 * Centi)
                /\ Abs(Length(aircraft'.position) - (sceneRadius + 2) * Centi) <= Eps
                /\ aircraft'.isFlying
                /\ aircraft'.velocity = AircraftConstructed.velocity
                /\ aircraft'.destinationAirport = AircraftConstructed.destinationAirport ]_vars

C20_ZeroVelocityKeepsOrientation ==
    [][ (op'.name = "Game.animate" /\ Ticked' /\ aircraft'.velocity = ZeroVec)
            => aircraft'.orientation = aircraft.orientation ]_vars

\* C21: in a frame of a flight the speed before its clamp lies between the
\* speed before the frame and the target speed + 200 * throttle, for every
\* frame time.
C21_SpeedTowardTarget ==
    [][ (op'.name = "Game.animate" /\ Ticked' /\ aircraft.isFlying /\ aircraft.mesh) =>
            LET target == targetSpeed(aircraft.speed, input'.throttle)
                new    == throttleSpeed(aircraft.speed, input'.throttle, op'.arg)
            IN  /\ new >= Min(aircraft.speed, target)
                /\ new <= Max(aircraft.speed, target) ]_vars

\* v lies between a and b, ends included.
Between(v, a, b) == v >= Min(a, b) /\ v <= Max(a, b)

\* C22: for every progress p in [0,1] the easing value is in [0,1], it is 0 at
\* p = 0 and 1 at p = 1, it does not decrease with p, and its two branches
\* agree at p = 0.5; during a transition that frames have advanced, distance,
\* height and fov each lie between the transition's from and to values.
\* The easing is a function of p alone, so its whole range of arguments is
\* gone through once, in the state before the first operation.
C22_EasingNoOvershoot ==
    /\ easeInOutCubic(0) = 0 /\ easeInOutCubic(Milli) = Milli
    /\ steps = 0 =>
          \A p \in 0 .. Milli :
             /\ easeInOutCubic(p) >= 0 /\ easeInOutCubic(p) <= Milli
             /\ p < Milli => easeInOutCubic(p) <= easeInOutCubic(p + 1)
    /\ RDiv(4 * 500 * 500 * 500, Milli * Milli) = easeInOutCubic(500)
    /\ (probe.stage = "transition" /\ probe.ticks > 0) =>
          /\ Between(camera.state.distance, camera.transition.from.distance,
                     camera.transition.to.distance)
          /\ Between(camera.state.height, camera.transition.from.height,
                     camera.transition.to.height)
          /\ Between(camera.state.fov, camera.transition.from.fov, camera.transition.to.fov)

\* A transition that frames have advanced part of the way, with the field of
\* view strictly between its two ends.
C22_Witness ==
    /\ probe.stage = "transition" /\ probe.ticks > 0
    /\ camera.transition.active
    /\ camera.transition.progress > 0 /\ camera.transition.progress < Milli
    /\ camera.state.fov # camera.transition.from.fov
    /\ camera.state.fov # camera.transition.to.fov

\* C23: while Game.isFlying is true no click, touch, menu choice or key
\* changes Airports.selectedAirport, and none leads to a takeoff.
C23_NoSelectionInFlight ==
    [][ game.isFlying =>
            /\ airports'.selectedAirport = airports.selectedAirport
            /\ ~(op'.name = "Airports.takeoffFrom"
                 /\ Len(op'.ran) > 0 /\ op'.ran[1] = "Aircraft.takeoff") ]_vars

\* C24: once the HUD exists, the view name in its indicator is the camera's
\* current view, after any sequence of nextView calls, takeoffs and frames.
C24_HudShowsCurrentView == hud.created => hud.view = camera.currentView

\* C25: once Camera.init has run, whenever no transition is active the
\* camera's distance, height and fov are the static parameters of the
\* current view.
C25_SettlesOnCurrentView ==
    (camera.camera /\ ~camera.transition.active) =>
        camera.state = viewSettings[camera.currentView]

\* C26: setView(v, true) called while a transition into the same view v is
\* running changes nothing of the camera: state, field of view and every
\* field of the transition are what they were before the call.
C26_SameViewNoOp ==
    [][ (/\ op'.name = "Camera.setView"
         /\ op'.arg.animate /\ op'.arg.view = camera.currentView
         /\ camera.camera /\ camera.transition.active
         /\ camera.transition.to = viewSettings[camera.currentView])
            => camera' = camera ]_vars

\* C27: a frame of a paused game changes neither the aircraft nor the camera,
\* and the frame time an unpaused frame of a flight reads from the clock and
\* hands to Aircraft.update is the time since the frame before it, with
\* nothing of a paused interval in it.
C27_PausedTimeNotSimulated ==
    [][ op'.name = "Game.animate" =>
            /\ game.isPaused => aircraft' = aircraft /\ camera' = camera
            /\ (~game.isPaused /\ game.isFlying /\ aircraft.isFlying)
                  => \A e \in PauseDts : getDelta(game, e) = e ]_vars

\* a . b for vectors scaled by TrigScale, scaled by TrigScale.
Dot(a, b) == RDiv(a.x * b.x + a.y * b.y + a.z * b.z, TrigScale)

\* C28: a frame of a flight that ends with pitch 0 and roll 0 under zero
\* input gives a velocity with no component along the local vertical at the
\* aircraft's position.  The velocity is the forward vector times the
\* distance flown, so its direction is taken from the forward vector; a
\* hundredth of its length is allowed for rounding.
C28_LevelFlightTangent ==
    [][ (/\ op'.name = "Game.animate" /\ Ticked' /\ aircraft.isFlying
         /\ aircraft'.pitch = 0 /\ aircraft'.roll = 0
         /\ input' = InputConstructed
         /\ aircraft'.velocity # ZeroVec)
            => Abs(Dot(forwardVector(aircraft'.pitch, aircraft'.heading, aircraft'.roll),
                       setLength(aircraft.position, TrigScale))) <= TrigScale \div 100 ]_vars

\* C29: in every state a frame can start in, Game.isFlying equals
\* Aircraft.state.isFlying, for any sequence of airport selections and takeoff
\* requests made through the user interface; and once both are true, no step
\* makes either false.
C29_FlyingFlagsAgree ==
    /\ [](game.isFlying = aircraft.isFlying)
    /\ [][ (game.isFlying /\ aircraft.isFlying)
              => (game'.isFlying /\ aircraft'.isFlying) ]_vars

\* A frame of a flight with both flags true, right after a takeoff requested
\* from the info panel of the selected airport.
C29_Witness ==
    /\ op.name = "Game.animate" /\ op.prev = "Airports.takeoffFrom"
    /\ game.isFlying /\ aircraft.isFlying
    /\ airports.selectedAirport # "null"
    /\ aircraft.takeoffAirport = airports.selectedAirport

\* C30: a stop timer never stops an oscillator that was created after the
\* stopEngineSound call that set the timer, and never clears isPlaying for
\* it.
C30_TimerStopsOwnSound ==
    [][ (op'.name = "stopTimer" /\ audio.oscillator # 0)
            => audio.oscillator <= op'.arg.after ]_vars
=============================================================================
